---- MODULE Spec2Model ----
(***************************************************************************)
(* Campus portal: the client's role resolution and signUp                   *)
(* (src/src/lib/auth.tsx, both versions of AuthProvider), its statistics   *)
(* cache (src/src/lib/api.ts) and the REST API (src/unnamed/part_001,      *)
(* src/unnamed/part_002) over the relational store of                      *)
(* src/prisma/schema.prisma.                                               *)
(*                                                                         *)
(* A store call is one atomic step; the code between two awaits runs with  *)
(* the step of the store call that precedes it.  Every store call may fail *)
(* (the TransientStoreError of the handlers' catch blocks).                *)
(***************************************************************************)
EXTENDS Integers, Sequences, FiniteSets, TLC

VARIABLES
  variant,        \* which AuthProvider of auth.tsx is mounted: 1 (l.25) or 2 (l.274)
  session,        \* React state `session`: the subject id of the session, or Null
  user,           \* React state `user`: the session's identity, or Null
  loading,        \* React state `loading`
  isAdmin,        \* React state `isAdmin`
  isEmailVerified,\* React state `isEmailVerified`
  getSessionState,\* the promise of supabase.auth.getSession(): "pending", "settled", "rejected"
  runs,           \* the checkUserRole calls in flight or finished, by slot
  now,            \* the browser's clock, Date.now(), in ms since the page loaded
  ticks,          \* how many times the clock has advanced
  dashboardStatsCache, \* api.ts l.38: the cached statistics or NoEntry (null)
  lastFetchTime,  \* api.ts l.39
  fetches,        \* the getDashboardStats calls waiting for their data, by slot
  returned,       \* what the getDashboardStats call that returned last returned
  users,          \* table User: a set of rows [id, email, name, role]
  inserts,        \* history: per id, how many User rows were inserted with it
  tokens,         \* per subject, the role claim of the bearer token it holds
  events,         \* table Event: per id, [userId, status, title] or NoEvent
  nextEvent,      \* how many Event rows were created (ids are never reused)
  eventUsers,     \* table EventUser: per (eventId, userId), how many rows
  notifications,  \* table Notification: per (userId, type, event), how many
  clubs,          \* table Club: per id, the creator's userId or Null
  nextClub,       \* how many Club rows were created
  clubMembers,    \* table ClubMember: per (clubId, userId, role), how many
  reqs,           \* the API requests and signUp calls in flight, by slot
  resp            \* the request answered last since the latest arrival

statsVars == <<now, ticks, dashboardStatsCache, lastFetchTime, fetches,
               returned>>
clientVars == <<variant, session, user, loading, isAdmin, isEmailVerified,
                getSessionState, runs, statsVars>>
dbUserVars == <<users, inserts>>
clubVars == <<clubs, nextClub, clubMembers>>
apiVars == <<tokens, events, nextEvent, eventUsers, notifications, clubVars,
             reqs, resp>>
vars == <<clientVars, dbUserVars, apiVars>>

Null == "null"

----------------------------------------------------------------------------
(* Bounds *)

\* checkUserRole calls that may overlap
MaxRuns == 2
\* Event rows ever created
MaxEvents == 1
\* Notification rows ever created
MaxNotifications == 2

\* Club rows ever created
MaxClubs == 1
\* advances of the clock
MaxTicks == 4

RunIds == 1..MaxRuns
EventIds == 1..MaxEvents
ClubIds == 1..MaxClubs

----------------------------------------------------------------------------
(* The identity provider's subjects *)

Subjects == {"s1", "s2"}
Role == {"USER", "ADMIN", "MODERATOR"}

\* Strings are sequences of characters, so that split('@') is computed.
EmailOf(s) == IF s = "s1" THEN <<"a", "@", "x">> ELSE <<"b", "@", "x">>
EmptyString == << >>

\* The identity of a session: what supabase puts in session.user.  s1 carries
\* app_metadata.role = 'ADMIN' and a metadata name, s2 neither.
Identity(s) ==
  [id |-> s,
   email |-> EmailOf(s),
   metaName |-> IF s = "s1" THEN <<"A">> ELSE EmptyString,
   appRole |-> IF s = "s1" THEN "ADMIN" ELSE Null,
   confirmed |-> (s = "s1")]

\* `user` when there is no session (null): every optional chain on it is
\* undefined, which the code only tests for truth.
NoUser ==
  [id |-> Null, email |-> EmptyString, metaName |-> EmptyString,
   appRole |-> Null, confirmed |-> FALSE]

\* email.split('@')[0]: the text before the first '@', the whole text if none
RECURSIVE SplitAtFirst(_)
SplitAtFirst(str) ==
  IF str = << >> THEN << >>
  ELSE IF Head(str) = "@" THEN << >>
  ELSE <<Head(str)>> \o SplitAtFirst(Tail(str))

\* name || email.split('@')[0]
DefaultName(name, email) ==
  IF name # EmptyString THEN name ELSE SplitAtFirst(email)

----------------------------------------------------------------------------
(* Table User (schema.prisma: id @id, email @unique) *)

HasUser(tbl, id) == \E row \in tbl : row.id = id
UserRow(tbl, id) == CHOOSE row \in tbl : row.id = id
RowsOf(tbl, id) == {row \in tbl : row.id = id}

\* Another row already holds this email: the insert or update violates @unique.
EmailTaken(tbl, id, email) == \E row \in tbl : row.id # id /\ row.email = email

\* A row holds this email: what findUnique({where: {email}}) and
\* select('email').eq('email', email).limit(1) look for.
EmailRegistered(tbl, email) == \E row \in tbl : row.email = email

\* The cuid() a new row gets (schema.prisma l.17): one never given before;
\* rows are never deleted.
Cuid(tbl) ==
  <<"c1", "c2", "c3">>[Cardinality({row \in tbl : row.id \notin Subjects}) + 1]

\* prisma.user.create under id @id and email @unique (schema.prisma l.17-18)
InsertUser(tbl, row) ==
  IF HasUser(tbl, row.id) \/ EmailRegistered(tbl, row.email)
  THEN [error |-> TRUE, rows |-> tbl]
  ELSE [error |-> FALSE, rows |-> tbl \cup {row}]

\* A faulty upsert that replaces by delete-and-insert without looking at the
\* conflict target: the old row stays and a second insertion is counted.
UpsertBlind(tbl, row) ==
  [error |-> FALSE, rows |-> tbl \cup {row}, inserted |-> TRUE]

\* supabase.from('User').upsert(row, {onConflict: 'id'}):
\* INSERT ... ON CONFLICT (id) DO UPDATE SET every given column.
Upsert(tbl, row) ==
  IF EmailTaken(tbl, row.id, row.email)
  THEN [error |-> TRUE, rows |-> tbl, inserted |-> FALSE]
  ELSE IF HasUser(tbl, row.id)
  THEN [error |-> FALSE, rows |-> (tbl \ RowsOf(tbl, row.id)) \cup {row},
        inserted |-> FALSE]
  ELSE [error |-> FALSE, rows |-> tbl \cup {row}, inserted |-> TRUE]

\* The row createUserRecordIfNotExists(userId, email, name) writes.
NewUserRow(userId, email, name) ==
  [id |-> userId, email |-> email, name |-> DefaultName(name, email),
   role |-> "USER"]

----------------------------------------------------------------------------
(* The dashboard statistics cache (src/src/lib/api.ts) *)

\* const CACHE_TTL = 60000 (l.40)
CACHE_TTL == 60000
\* setTimeout(resolve, 300) (l.94): how long the data takes
FetchDelay == 300

\* The clock advances by the time the data takes or by the rest of a TTL.
Advance == {FetchDelay, CACHE_TTL - FetchDelay}

FetchIds == {1, 2}
\* dashboardStatsCache = null; an entry is known by the start of the call
\* that fetched it.
NoEntry == [start |-> -1]
IdleFetch == [pc |-> "idle", now |-> 0, seen |-> NoEntry, last |-> 0]
NoReturn ==
  [pc |-> "none", at |-> 0, time |-> 0, seen |-> NoEntry, last |-> 0,
   fetched |-> FALSE, entry |-> NoEntry]

StatsStart ==
  /\ now = 0
  /\ ticks = 0
  /\ dashboardStatsCache = NoEntry
  /\ lastFetchTime = 0
  /\ fetches = [f \in FetchIds |-> IdleFetch]
  /\ returned = NoReturn

\* A cache that stamps the entry when the data arrives.
FetchTimeAtEnd(call, clock) == clock

\* lastFetchTime = now (l.122): `now` is the const of l.84, read when the
\* call began.
FetchTime(call, clock) == call.now

\* dashboardStatsCache && (now - lastFetchTime < CACHE_TTL) (l.87)
CacheValid(clock) ==
  dashboardStatsCache # NoEntry /\ clock - lastFetchTime < CACHE_TTL

FreeFetches == {f \in FetchIds : fetches[f].pc = "idle"}
FreeFetch == CHOOSE f \in FreeFetches : \A g \in FreeFetches : f <= g

\* getDashboardStats up to its return or its await (l.83-94)
GetDashboardStats ==
  /\ FreeFetches # {}
  /\ IF CacheValid(now)
     THEN /\ returned' = [pc |-> "returned", at |-> now, time |-> now,
                          seen |-> dashboardStatsCache, last |-> lastFetchTime,
                          fetched |-> FALSE, entry |-> dashboardStatsCache]
          /\ UNCHANGED fetches
     ELSE /\ fetches' = [fetches EXCEPT ![FreeFetch] =
                           [pc |-> "fetching", now |-> now,
                            seen |-> dashboardStatsCache,
                            last |-> lastFetchTime]]
          /\ UNCHANGED returned
  /\ UNCHANGED <<now, ticks, dashboardStatsCache, lastFetchTime>>
  /\ UNCHANGED <<variant, session, user, loading, isAdmin, isEmailVerified,
                 getSessionState, runs, users, inserts, tokens, events,
                 nextEvent, eventUsers, notifications, clubs, nextClub,
                 clubMembers, reqs, resp>>

\* The timer of l.94 fires: the cache is updated and the data returned
\* (l.96-124).
FetchResolves(f) ==
  /\ fetches[f].pc = "fetching"
  /\ now >= fetches[f].now + FetchDelay
  /\ LET mockData == [start |-> fetches[f].now]
     IN /\ dashboardStatsCache' = mockData
        /\ lastFetchTime' = FetchTime(fetches[f], now)
        /\ returned' = [pc |-> "returned", at |-> fetches[f].now, time |-> now,
                        seen |-> fetches[f].seen, last |-> fetches[f].last,
                        fetched |-> TRUE, entry |-> mockData]
  /\ fetches' = [fetches EXCEPT ![f] = IdleFetch]
  /\ UNCHANGED <<now, ticks>>
  /\ UNCHANGED <<variant, session, user, loading, isAdmin, isEmailVerified,
                 getSessionState, runs, users, inserts, tokens, events,
                 nextEvent, eventUsers, notifications, clubs, nextClub,
                 clubMembers, reqs, resp>>

\* Time passes, up to the next timer that is due.
Tick ==
  /\ ticks < MaxTicks
  /\ \E d \in Advance :
       /\ \A f \in FetchIds :
            fetches[f].pc = "fetching" => now + d <= fetches[f].now + FetchDelay
       /\ now' = now + d
  /\ ticks' = ticks + 1
  /\ UNCHANGED <<dashboardStatsCache, lastFetchTime, fetches, returned>>
  /\ UNCHANGED <<variant, session, user, loading, isAdmin, isEmailVerified,
                 getSessionState, runs, users, inserts, tokens, events,
                 nextEvent, eventUsers, notifications, clubs, nextClub,
                 clubMembers, reqs, resp>>

----------------------------------------------------------------------------
(* AuthProvider *)

\* A mount effect of a later render would read the live state instead.
ClosureUserLive == user

\* The `user` that checkUserRole and createUserRecordIfNotExists read.  Both
\* are called only from the callbacks of the mount effect (deps []), which
\* close over the functions, and so the `user`, of the first render:
\* useState<User | null>(null).
ClosureUser == NoUser

IdleRun ==
  [uid |-> Null, pc |-> "idle", after |-> Null, noRow |-> FALSE,
   storeErr |-> FALSE, firstErr |-> Null, lastErr |-> Null, readRole |-> Null,
   result |-> FALSE, upserted |-> FALSE]

FreeRuns == {r \in RunIds : runs[r].pc \in {"idle", "done"}}
FreeRun == CHOOSE r \in FreeRuns : \A q \in FreeRuns : r <= q

\* A finished run: what it last passed to setIsAdmin.
Finish(run, value) == [run EXCEPT !.pc = "done", !.result = value]

\* The body both callbacks of the mount effect share: setSession, setUser,
\* checkEmailVerification, checkUserRole up to its first await, setLoading.
OnSession(s) ==
  /\ session' = s
  /\ user' = IF s = Null THEN NoUser ELSE Identity(s)
  /\ isEmailVerified' = IF s = Null THEN FALSE ELSE Identity(s).confirmed
  /\ loading' = FALSE
  /\ IF s = Null
     THEN /\ isAdmin' = FALSE
          /\ UNCHANGED runs
     ELSE /\ FreeRuns # {}
          /\ runs' = [runs EXCEPT ![FreeRun] =
                        [IdleRun EXCEPT !.uid = s, !.pc = "lookup"]]
          /\ UNCHANGED isAdmin
  /\ UNCHANGED <<variant, statsVars, dbUserVars, apiVars>>

\* supabase.auth.getSession().then(...)
GetSessionResolves ==
  /\ getSessionState = "pending"
  /\ getSessionState' = "settled"
  /\ \E s \in Subjects \cup {Null} : OnSession(s)

\* supabase.auth.onAuthStateChange((_event, session) => ...)
AuthStateChange ==
  /\ UNCHANGED getSessionState
  /\ \E s \in Subjects \cup {Null} : OnSession(s)

\* supabase.auth.getSession() rejects.  The promise has a then() callback and
\* no catch(): the callback is not run and no state is set.
GetSessionRejects ==
  /\ getSessionState = "pending"
  /\ getSessionState' = "rejected"
  /\ UNCHANGED <<variant, session, user, loading, isAdmin, isEmailVerified,
                 runs, statsVars, dbUserVars, apiVars>>

\* The effect of AdminDashboard (pages/admin/Dashboard.tsx l.35-40), run
\* when it mounts and when isAdmin changes: if (!isAdmin) navigate('/').
RedirectsHome == ~isAdmin

\* What a select('role').eq('id', userId).single() answers.
LookupErrors == {"42P01", "XX000", "THROW"}
LookupOutcomes(uid) ==
  LookupErrors \cup
  (IF Cardinality(RowsOf(users, uid)) = 1 THEN {"ok"} ELSE {"PGRST116"})

\* user && user.email
UserOk(u) == u.id # Null /\ u.email # EmptyString

\* checkUserRole after its first select, version 1 (l.80-137)
LookupReturns1(run, out) ==
  IF out = "ok"
  THEN Finish(run, UserRow(users, run.uid).role = "ADMIN")
  ELSE IF out = "42P01"
  THEN Finish(run, FALSE)
  ELSE IF out = "PGRST116"
  THEN IF UserOk(ClosureUser)
       THEN [run EXCEPT !.pc = "upsert", !.after = "refetch"]
       ELSE Finish(run, FALSE)
  ELSE \* thrown, or rethrown at l.119: the catch of l.123
       IF UserOk(ClosureUser)
       THEN [run EXCEPT !.pc = "upsert", !.after = "end", !.result = FALSE]
       ELSE Finish(run, FALSE)

\* checkUserRole after its first select, version 2 (l.331-371)
LookupReturns2(run, out) ==
  IF out = "ok"
  THEN Finish(run, UserRow(users, run.uid).role = "ADMIN")
  ELSE IF out = "THROW"
  THEN Finish(run, FALSE)
  ELSE IF ClosureUser.id # Null /\ ClosureUser.appRole = "ADMIN"
  THEN Finish(run, TRUE)
  ELSE IF out = "PGRST116"
  THEN [run EXCEPT !.pc = "upsert", !.after = "refetch"]
  ELSE Finish(run, FALSE)

LookupReturns(r) ==
  /\ runs[r].pc = "lookup"
  /\ \E out \in LookupOutcomes(runs[r].uid) :
       LET run == [runs[r] EXCEPT
                     !.noRow = (out = "PGRST116"),
                     !.storeErr = (out \in LookupErrors),
                     !.firstErr = IF out = "ok" THEN Null ELSE out,
                     !.lastErr = IF out = "ok" THEN Null ELSE out,
                     !.readRole = IF out = "ok"
                                  THEN UserRow(users, runs[r].uid).role
                                  ELSE Null]
           next == IF variant = 1 THEN LookupReturns1(run, out)
                   ELSE LookupReturns2(run, out)
       IN /\ runs' = [runs EXCEPT ![r] = next]
          /\ isAdmin' = IF next.pc = "done" \/ next.after = "end"
                        THEN next.result ELSE isAdmin
  /\ UNCHANGED <<variant, statsVars, session, user, loading, isEmailVerified,
                 getSessionState, dbUserVars, apiVars>>

\* The arguments checkUserRole gives createUserRecordIfNotExists:
\* l.97/l.132 (user.email, user.user_metadata?.name) and
\* l.344 (user?.email || '', user?.user_metadata?.name).
CreateArgs(uid) == NewUserRow(uid, ClosureUser.email, ClosureUser.metaName)

\* createUserRecordIfNotExists answers (l.141-159, l.375-403), and the caller
\* goes on: to the second select, or to the end of checkUserRole.
UpsertReturns(r) ==
  /\ runs[r].pc = "upsert"
  /\ \E fail \in BOOLEAN :
       LET up == IF fail
                 THEN [error |-> TRUE, rows |-> users, inserted |-> FALSE]
                 ELSE Upsert(users, CreateArgs(runs[r].uid))
           run == [runs[r] EXCEPT !.storeErr = @ \/ fail,
                                  !.upserted = ~up.error]
           next == IF up.error
                   THEN Finish(run, FALSE)
                   ELSE IF run.after = "refetch"
                   THEN [run EXCEPT !.pc = "refetch"]
                   ELSE Finish(run, FALSE)
       IN /\ runs' = [runs EXCEPT ![r] = next]
          /\ users' = up.rows
          /\ inserts' = IF up.inserted
                        THEN [inserts EXCEPT ![runs[r].uid] = @ + 1]
                        ELSE inserts
          \* on the catch path setIsAdmin(false) came before the upsert (l.127)
          /\ isAdmin' = IF next.pc = "done" /\ run.after # "end"
                        THEN next.result ELSE isAdmin
  /\ UNCHANGED <<variant, statsVars, session, user, loading, isEmailVerified,
                 getSessionState, apiVars>>

\* The second select (l.99-108, l.347-357)
RefetchReturns(r) ==
  /\ runs[r].pc = "refetch"
  /\ \E out \in LookupOutcomes(runs[r].uid) :
       LET run == [runs[r] EXCEPT
                     !.storeErr = @ \/ (out \in LookupErrors),
                     !.lastErr = IF out = "ok" THEN Null ELSE out,
                     !.readRole = IF out = "ok"
                                  THEN UserRow(users, runs[r].uid).role
                                  ELSE Null]
           next == IF out = "ok"
                   THEN Finish(run, UserRow(users, run.uid).role = "ADMIN")
                   ELSE Finish(run, FALSE)
       IN /\ runs' = [runs EXCEPT ![r] = next]
          /\ isAdmin' = next.result
  /\ UNCHANGED <<variant, statsVars, session, user, loading, isEmailVerified,
                 getSessionState, dbUserVars, apiVars>>

----------------------------------------------------------------------------
(* The API: tokens and authenticateToken (part_001 l.15-29) *)

\* Requests the server may be handling at once
ReqIds == {1, 2}

Title == {"t1", "t2"}

\* A bearer token: how it was signed, whether it has expired, its payload.
NoToken == [sig |-> Null, expired |-> FALSE, id |-> Null, role |-> Null]
SignedToken(s) ==
  [sig |-> "secret", expired |-> FALSE, id |-> s, role |-> tokens[s]]

\* The Authorization headers a request may carry, as the parts split(' ')
\* gives: none, a scheme without a token, a token signed with another key, an
\* expired token, and the token each subject was issued.
Headers ==
  { << >>, <<"Bearer">>,
    <<"Bearer", [sig |-> "other", expired |-> FALSE, id |-> "s1", role |-> "ADMIN"]>>,
    <<"Bearer", [sig |-> "secret", expired |-> TRUE, id |-> "s2", role |-> "ADMIN"]>> }
  \cup {<<"Bearer", SignedToken(s)>> : s \in {x \in Subjects : tokens[x] # Null}}

\* The headers that carry a token authenticateToken accepts.
ValidHeaders ==
  {<<"Bearer", SignedToken(s)>> : s \in {x \in Subjects : tokens[x] # Null}}

\* authHeader && authHeader.split(' ')[1]
TokenOf(header) == IF Len(header) >= 2 THEN header[2] ELSE NoToken

\* jwt.verify(token, secret) returns the payload, or throws
Verifies(token) == token.sig = "secret" /\ ~token.expired

\* authenticateToken that calls next() whatever the header holds.
AuthenticateTokenOpen(header) ==
  [status |-> 0, err |-> Null, next |-> TRUE]

\* authenticateToken without its try/catch around jwt.verify: a token that
\* does not verify is passed on.
AuthenticateTokenUnchecked(header) ==
  IF TokenOf(header) = NoToken
  THEN [status |-> 401, err |-> "Unauthorized", next |-> FALSE]
  ELSE [status |-> 0, err |-> Null, next |-> TRUE]

\* authenticateToken: the answer it gives itself, or next() with req.user
AuthenticateToken(header) ==
  IF TokenOf(header) = NoToken
  THEN [status |-> 401, err |-> "Unauthorized", next |-> FALSE]
  ELSE IF Verifies(TokenOf(header))
  THEN [status |-> 0, err |-> Null, next |-> TRUE]
  ELSE [status |-> 403, err |-> "Invalid token", next |-> FALSE]

\* The issuer of the tokens is not part of the repository; the handlers read
\* req.user.id and req.user.role from the payload.  A token carries the role
\* its subject's User row had when it was issued.
IssueToken ==
  /\ \E row \in users :
       /\ tokens[row.id] # row.role
       /\ tokens' = [tokens EXCEPT ![row.id] = row.role]
  /\ UNCHANGED <<clientVars, dbUserVars, events, nextEvent, eventUsers,
                 notifications, clubVars, reqs, resp>>

----------------------------------------------------------------------------
(* The API: requests *)

NoEvent == [userId |-> Null, status |-> Null, title |-> Null]
MemberRole == {"ADMIN", "MODERATOR", "MEMBER"}
EventStatus == {"PENDING", "APPROVED", "REJECTED", "CANCELLED"}
BodyRole == {"USER", "ADMIN"}

\* What supabase.auth.getSession() gave the request interceptor of a request:
\* nothing yet, a session (with its access token, or without one), no
\* session, an error, or an exception.
NoOutcome == [result |-> Null, token |-> NoToken]

IdleReq ==
  [kind |-> Null, pc |-> "idle", header |-> << >>, caller |-> Null,
   crole |-> Null, event |-> 0, target |-> Null, hasName |-> FALSE,
   role |-> Null, title |-> Null, owner |-> Null, status |-> 0,
   err |-> Null, fault |-> FALSE, byRole |-> FALSE, rowRole |-> Null,
   wrote |-> FALSE, notified |-> FALSE, cascaded |-> FALSE, club |-> 0,
   data |-> FALSE,
   calls |-> 0, bstatus |-> Null, issued |-> {}, repeated |-> FALSE,
   email |-> EmptyString, uid |-> Null, known |-> FALSE, taken |-> FALSE,
   provider |-> FALSE, getSession |-> NoOutcome, early |-> FALSE,
   rejected |-> FALSE]

UserKinds == {"putUser"}
ClubKinds == {"createClub"}
EventKinds == {"createEvent", "putEvent", "deleteEvent"}
AdminKinds == {"approve", "reject"}
JoinKinds == {"join", "leave"}
ReadKinds == {"listUsers", "dashboard"}
\* The routes of the second server (part_002), which have no middleware
OpenKinds == {"testDb"}
\* POST /api/auth/register of the second server and signUp of AuthProvider
RegisterKinds == {"register", "signUp"}
Emails == {EmailOf(s) : s \in Subjects}
\* The subject the identity provider keeps for an email
SubjectOf(email) == CHOOSE s \in Subjects : EmailOf(s) = email

\* A `status` field in the body of POST and PUT /api/events: none, or one
\* the caller would like the event to have.
BodyStatus == {Null, "APPROVED"}

\* The parameters and bodies the requests of a kind are drawn from.
Requests(kind) ==
  IF kind = "putUser"
  THEN {[IdleReq EXCEPT !.kind = kind, !.target = t, !.hasName = n, !.role = ro] :
          t \in Subjects, n \in BOOLEAN, ro \in BodyRole \cup {Null}}
  ELSE IF kind = "createClub"
  THEN {[IdleReq EXCEPT !.kind = kind, !.title = "t1"]}
  ELSE IF kind = "createEvent"
  THEN {[IdleReq EXCEPT !.kind = kind, !.title = "t1", !.bstatus = st] :
          st \in BodyStatus}
  ELSE IF kind \in ReadKinds \cup OpenKinds
  THEN {[IdleReq EXCEPT !.kind = kind]}
  ELSE IF kind \in RegisterKinds
  THEN {[IdleReq EXCEPT !.kind = kind, !.email = e] : e \in Emails}
  ELSE IF kind = "putEvent"
  THEN {[IdleReq EXCEPT !.kind = kind, !.event = e, !.title = "t2",
                        !.bstatus = st] :
          e \in EventIds, st \in BodyStatus}
  ELSE {[IdleReq EXCEPT !.kind = kind, !.event = e] : e \in EventIds}

Respond(req, status, err) ==
  [req EXCEPT !.pc = "done", !.status = status, !.err = err]
Fail(req, err) == [Respond(req, 500, err) EXCEPT !.fault = TRUE]

\* 'Error updating event', 'Error deleting event', 'Error approving event',
\* 'Error rejecting event', 'Error joining event', 'Error leaving event'
ErrorMsg(verb) ==
  IF verb = "updating" THEN "Error updating event"
  ELSE IF verb = "deleting" THEN "Error deleting event"
  ELSE IF verb = "approving" THEN "Error approving event"
  ELSE IF verb = "rejecting" THEN "Error rejecting event"
  ELSE IF verb = "joining" THEN "Error joining event"
  ELSE "Error leaving event"

RoleOfRow(id) == IF HasUser(users, id) THEN UserRow(users, id).role ELSE Null

InFlight(kinds) ==
  Cardinality({r \in ReqIds : reqs[r].kind \in kinds
                               /\ reqs[r].pc \notin {"idle", "done"}})
TotalNotifications ==
  LET keys == DOMAIN notifications
      RECURSIVE Sum(_)
      Sum(ks) == IF ks = {} THEN 0
                 ELSE LET k == CHOOSE k \in ks : TRUE
                      IN notifications[k] + Sum(ks \ {k})
  IN Sum(keys)

\* The store calls of GET /api/admin/dashboard in the order of l.523-552
DashboardCall ==
  <<"user.count", "event.count", "club.count", "event.count PENDING",
    "user.findMany", "event.findMany">>

\* The store call a request is waiting for: the operation of the call site
\* its position stands for.  Both the try block and the catch block of
\* /api/test-db call prisma.$disconnect (part_002 l.21, l.38).
StoreCall(req) ==
  IF req.pc = "dashboard" THEN DashboardCall[req.calls]
  ELSE IF req.pc = "testDb"
  THEN <<"$disconnect", "$connect", "user.count">>[req.calls + 1]
  ELSE IF req.pc = "testDbCleanup" THEN "$disconnect"
  ELSE req.pc

\* A request goes on to its next await, or is answered: its slot is free again.
Step(r, next) ==
  LET counted == [next EXCEPT
                    !.calls = reqs[r].calls + 1,
                    !.issued = reqs[r].issued \cup {StoreCall(reqs[r])},
                    !.repeated = reqs[r].repeated
                                 \/ StoreCall(reqs[r]) \in reqs[r].issued]
  IN IF next.pc = "done"
     THEN /\ reqs' = [reqs EXCEPT ![r] = IdleReq]
          /\ resp' = counted
     ELSE /\ reqs' = [reqs EXCEPT ![r] = counted]
          /\ UNCHANGED resp

FreeReqs(slots) == {r \in slots : reqs[r].pc = "idle"}
FreeReq(slots) == CHOOSE r \in FreeReqs(slots) : \A q \in FreeReqs(slots) : r <= q

\* The handler of PUT /api/users/:id up to its first await (l.97-108)
PutUserChecks(req) ==
  IF req.role # Null /\ req.crole # "ADMIN"
  THEN Respond(req, 403, "Only admins can update roles")
  ELSE IF req.target # req.caller /\ req.crole # "ADMIN"
  THEN Respond(req, 403, "You can only update your own profile")
  ELSE [req EXCEPT !.pc = "updateUser",
                   !.byRole = (req.role # Null \/ req.target # req.caller),
                   !.rowRole = RoleOfRow(req.caller)]

\* Where a route goes once authenticateToken has called next().
Route(req) ==
  IF req.kind = "putUser" THEN PutUserChecks(req)
  ELSE IF req.kind \in AdminKinds \cup ReadKinds
  THEN [req EXCEPT !.pc = "isAdmin"]
  ELSE IF req.kind = "createEvent" THEN [req EXCEPT !.pc = "createEvent"]
  ELSE IF req.kind \in {"putEvent", "deleteEvent"}
  THEN [req EXCEPT !.pc = "findEvent"]
  ELSE IF req.kind = "join" THEN [req EXCEPT !.pc = "joinFindEvent"]
  ELSE IF req.kind = "leave" THEN [req EXCEPT !.pc = "leaveFind"]
  ELSE [req EXCEPT !.pc = "createClub"]

\* A request arrives while fewer than Cardinality(slots) are being handled:
\* authenticateToken, then the route up to its first await.
Receive(kinds, headers, slots) ==
  /\ FreeReqs(slots) # {}
  /\ \E kind \in kinds, header \in headers :
     \E new \in Requests(kind) :
       LET auth == AuthenticateToken(header)
           req == [new EXCEPT !.header = header,
                              !.caller = IF auth.next THEN TokenOf(header).id
                                         ELSE Null,
                              !.crole = IF auth.next THEN TokenOf(header).role
                                        ELSE Null]
       IN /\ kind = "createEvent" =>
               nextEvent + InFlight({"createEvent"}) <= MaxEvents
          /\ kind = "createClub" =>
               nextClub + InFlight({"createClub"}) <= MaxClubs
          /\ kind \in AdminKinds =>
               TotalNotifications + InFlight(AdminKinds) < MaxNotifications
              \* the answer on record is the one to the latest request
              \* answered since the last arrival
          /\ LET next == IF auth.next THEN Route(req)
                         ELSE Respond(req, auth.status, auth.err)
             IN IF next.pc = "done"
                THEN /\ resp' = next
                     /\ UNCHANGED reqs
                ELSE /\ reqs' = [reqs EXCEPT ![FreeReq(slots)] = next]
                     /\ resp' = IdleReq
  /\ UNCHANGED <<clientVars, dbUserVars, tokens, events, nextEvent,
                 eventUsers, notifications, clubVars>>

\* A request arrives at a route without middleware and goes up to its first
\* await.
ReceiveOpen(kinds, slots) ==
  /\ FreeReqs(slots) # {}
  /\ \E kind \in kinds :
     \E new \in Requests(kind) :
       /\ reqs' = [reqs EXCEPT ![FreeReq(slots)] =
                      [new EXCEPT !.pc = kind,
                                  !.known = EmailRegistered(users, new.email)]]
       /\ resp' = IdleReq
  /\ UNCHANGED <<clientVars, dbUserVars, tokens, events, nextEvent,
                 eventUsers, notifications, clubVars>>

----------------------------------------------------------------------------
(* The client: the request interceptor of the axios instance *)

\* The access tokens a session may hold
SessionTokens == {TokenOf(h) : h \in {x \in Headers : Len(x) >= 2}}

\* The ways supabase.auth.getSession() ends.  With an error the session it
\* returns is null.
GetSessionOutcomes ==
  {[result |-> "session", token |-> t] : t \in SessionTokens \cup {NoToken}}
  \cup {[result |-> res, token |-> NoToken] : res \in {"none", "error", "throw"}}

\* data.session?.access_token
AccessToken(outcome) ==
  IF outcome.result = "session" THEN outcome.token ELSE NoToken

\* The interceptor of api.ts (l.11-35): the config it returns.  An error
\* returned and an exception caught both lead to `return config`.
Interceptor(outcome) ==
  IF outcome.result \in {"throw", "error"}
  THEN [rejected |-> FALSE, header |-> << >>]
  ELSE IF AccessToken(outcome) # NoToken
  THEN [rejected |-> FALSE, header |-> <<"Bearer", AccessToken(outcome)>>]
  ELSE [rejected |-> FALSE, header |-> << >>]

\* The earlier interceptor (Navbar.tsx l.392-401) awaits getSession outside
\* any try block: an exception rejects the promise the interceptor returns,
\* and axios fails the request without sending it.
InterceptorEarly(outcome) ==
  IF outcome.result = "throw"
  THEN [rejected |-> TRUE, header |-> << >>]
  ELSE IF AccessToken(outcome) # NoToken
  THEN [rejected |-> FALSE, header |-> <<"Bearer", AccessToken(outcome)>>]
  ELSE [rejected |-> FALSE, header |-> << >>]

\* The client calls the API: the interceptor of either version reads the
\* session, then the request is sent with the config it returned and arrives
\* at authenticateToken and its route, or the call fails at the client.
ApiRequest(kinds, slots) ==
  /\ FreeReqs(slots) # {}
  /\ \E kind \in kinds, outcome \in GetSessionOutcomes, early \in BOOLEAN :
     \E new \in Requests(kind) :
       LET config == IF early THEN InterceptorEarly(outcome)
                     ELSE Interceptor(outcome)
           auth == AuthenticateToken(config.header)
           req == [new EXCEPT !.header = config.header,
                              !.getSession = outcome,
                              !.early = early,
                              !.rejected = config.rejected,
                              !.caller = IF auth.next
                                         THEN TokenOf(config.header).id
                                         ELSE Null,
                              !.crole = IF auth.next
                                        THEN TokenOf(config.header).role
                                        ELSE Null]
           next == IF config.rejected THEN [req EXCEPT !.pc = "done"]
                   ELSE IF auth.next THEN Route(req)
                   ELSE Respond(req, auth.status, auth.err)
       IN /\ kind = "createEvent" =>
               nextEvent + InFlight({"createEvent"}) <= MaxEvents
          /\ IF next.pc = "done"
             THEN /\ resp' = next
                  /\ UNCHANGED reqs
             ELSE /\ reqs' = [reqs EXCEPT ![FreeReq(slots)] = next]
                  /\ resp' = IdleReq
  /\ UNCHANGED <<clientVars, dbUserVars, tokens, events, nextEvent,
                 eventUsers, notifications, clubVars>>

----------------------------------------------------------------------------

\* The try block of GET /api/test-db (part_002 l.19-32): $disconnect,
\* $connect and user.count one after the other; the first that fails leads
\* to the catch block.
TestDbStep(r) ==
  /\ reqs[r].pc = "testDb"
  /\ \E fault \in BOOLEAN :
       Step(r,
         IF fault THEN [reqs[r] EXCEPT !.pc = "testDbCleanup", !.fault = TRUE]
         ELSE IF reqs[r].calls + 1 < Len(<<"$disconnect", "$connect", "user.count">>)
         THEN reqs[r]
         ELSE [Respond(reqs[r], 200, Null) EXCEPT !.data = TRUE])
  /\ UNCHANGED <<clientVars, dbUserVars, tokens, events, nextEvent,
                 eventUsers, notifications, clubVars>>

\* The catch block of GET /api/test-db (part_002 l.33-47): $disconnect
\* again, its own failure only logged, then the 500.
TestDbCleanupStep(r) ==
  /\ reqs[r].pc = "testDbCleanup"
  /\ \E fault \in BOOLEAN :
       Step(r, Fail(reqs[r], "Database connection error"))
  /\ UNCHANGED <<clientVars, dbUserVars, tokens, events, nextEvent,
                 eventUsers, notifications, clubVars>>

\* prisma.user.findUnique of POST /api/auth/register (part_002 l.53-62)
RegisterFindStep(r) ==
  /\ reqs[r].pc = "register"
  /\ \E fault \in BOOLEAN :
       Step(r,
         IF fault THEN Fail(reqs[r], "Registration failed")
         ELSE IF EmailRegistered(users, reqs[r].email)
         THEN Respond(reqs[r], 400, "User with this email already exists")
         ELSE [reqs[r] EXCEPT !.pc = "registerCreate"])
  /\ UNCHANGED <<clientVars, dbUserVars, tokens, events, nextEvent,
                 eventUsers, notifications, clubVars>>

\* prisma.user.create of POST /api/auth/register (part_002 l.65-83)
RegisterCreateStep(r) ==
  /\ reqs[r].pc = "registerCreate"
  /\ \E fault \in BOOLEAN :
       LET row == [id |-> Cuid(users), email |-> reqs[r].email,
                   name |-> <<"N">>, role |-> "USER"]
           ins == IF fault THEN [error |-> TRUE, rows |-> users]
                  ELSE InsertUser(users, row)
           req == [reqs[r] EXCEPT
                     !.taken = EmailRegistered(users, reqs[r].email)]
       IN /\ users' = ins.rows
          /\ Step(r,
               IF ins.error THEN Fail(req, "Registration failed")
               ELSE [Respond(req, 201, Null) EXCEPT !.wrote = TRUE,
                                                    !.uid = row.id])
  /\ UNCHANGED <<clientVars, inserts, tokens, events, nextEvent, eventUsers,
                 notifications, clubVars>>

\* What select('email').eq('email', email).limit(1) of signUp answers: the
\* rows, {data: null, error}, or a rejected promise.
SelectOutcomes == {"rows", "error", "throw"}

\* signUp from its select to its call of the identity provider (auth.tsx
\* l.410-436); the error of the select is not read.
SignUpSelectStep(r) ==
  /\ reqs[r].pc = "signUp"
  /\ \E out \in SelectOutcomes :
       Step(r,
         IF out = "throw"
         THEN [Respond(reqs[r], 0, "Error during signup") EXCEPT !.fault = TRUE]
         ELSE IF out = "rows" /\ EmailRegistered(users, reqs[r].email)
         THEN Respond(reqs[r], 0, "This email is already registered")
         ELSE [reqs[r] EXCEPT
                 !.pc = "authSignUp", !.provider = TRUE,
                 !.fault = (out = "error"),
                 !.taken = EmailRegistered(users, reqs[r].email)])
  /\ UNCHANGED <<clientVars, dbUserVars, tokens, events, nextEvent,
                 eventUsers, notifications, clubVars>>

\* What supabase.auth.signUp answers: the user of the email, an error, or a
\* rejected promise.
ProviderOutcomes == {"user", "error", "throw"}

\* signUp from the provider's answer to its upsert (auth.tsx l.425-446)
AuthSignUpStep(r) ==
  /\ reqs[r].pc = "authSignUp"
  /\ \E out \in ProviderOutcomes :
       Step(r,
         IF out = "throw" THEN Respond(reqs[r], 0, "Error during signup")
         ELSE IF out = "error" THEN Respond(reqs[r], 0, "AuthApiError")
         ELSE [reqs[r] EXCEPT !.pc = "signUpUpsert",
                              !.uid = SubjectOf(reqs[r].email)])
  /\ UNCHANGED <<clientVars, dbUserVars, tokens, events, nextEvent,
                 eventUsers, notifications, clubVars>>

\* createUserRecordIfNotExists of signUp and its return (auth.tsx l.440-456):
\* the error of the upsert is logged and success is returned.
SignUpUpsertStep(r) ==
  /\ reqs[r].pc = "signUpUpsert"
  /\ \E fault \in BOOLEAN :
       LET up == IF fault
                 THEN [error |-> TRUE, rows |-> users, inserted |-> FALSE]
                 ELSE Upsert(users,
                             NewUserRow(reqs[r].uid, reqs[r].email, <<"N">>))
           req == [reqs[r] EXCEPT
                     !.taken = EmailRegistered(users, reqs[r].email)]
       IN /\ users' = up.rows
          /\ inserts' = IF up.inserted
                        THEN [inserts EXCEPT ![reqs[r].uid] = @ + 1]
                        ELSE inserts
          /\ Step(r, [Respond(req, 0, Null) EXCEPT !.wrote = up.inserted])
  /\ UNCHANGED <<clientVars, tokens, events, nextEvent, eventUsers,
                 notifications, clubVars>>

\* An isAdmin that trusts the role of the token, as the other routes do.
ForbiddenByToken(req) == req.crole # "ADMIN"

\* !user || user.role !== 'ADMIN' (l.38)
Forbidden(req) == RoleOfRow(req.caller) # "ADMIN"

\* The handler behind isAdmin's next()
AfterIsAdmin(kind) ==
  IF kind \in AdminKinds THEN "updateStatus"
  ELSE IF kind = "listUsers" THEN "listUsers"
  ELSE "dashboard"

\* An isAdmin whose catch lets the request through.
IsAdminFailOpen(req, fault) ==
  IF ~fault /\ Forbidden(req)
  THEN Respond(req, 403, "Forbidden: Admin access required")
  ELSE [req EXCEPT !.pc = AfterIsAdmin(req.kind), !.byRole = TRUE,
                   !.rowRole = RoleOfRow(req.caller)]

\* What isAdmin does with the answer of its findUnique (l.33-45): 500 from
\* the catch, 403 for no row or another role, next() otherwise.
IsAdminAnswer(req, fault) ==
  IF fault THEN Fail(req, "Server error")
  ELSE IF Forbidden(req)
  THEN Respond(req, 403, "Forbidden: Admin access required")
  ELSE [req EXCEPT !.pc = AfterIsAdmin(req.kind), !.byRole = TRUE,
                   !.rowRole = RoleOfRow(req.caller)]

\* isAdmin (l.32-46)
IsAdminStep(r) ==
  /\ reqs[r].pc = "isAdmin"
  /\ \E fault \in BOOLEAN : Step(r, IsAdminAnswer(reqs[r], fault))
  /\ UNCHANGED <<clientVars, dbUserVars, tokens, events, nextEvent,
                 eventUsers, notifications, clubVars>>

\* prisma.user.findMany of GET /api/users (l.56-68)
ListUsersStep(r) ==
  /\ reqs[r].pc = "listUsers"
  /\ \E fault \in BOOLEAN :
       Step(r,
         IF fault THEN Fail(reqs[r], "Error fetching users")
         ELSE [Respond(reqs[r], 200, Null) EXCEPT !.data = TRUE])
  /\ UNCHANGED <<clientVars, dbUserVars, tokens, events, nextEvent,
                 eventUsers, notifications, clubVars>>

\* The store calls of GET /api/admin/dashboard, one after the other: four
\* counts and two findMany (l.523-552)
DashboardCalls == 6

\* One store call of GET /api/admin/dashboard (l.523-566); the statistics
\* are sent after the last one.
DashboardStep(r) ==
  /\ reqs[r].pc = "dashboard"
  /\ \E fault \in BOOLEAN :
       Step(r,
         IF fault THEN Fail(reqs[r], "Error fetching dashboard stats")
         ELSE IF reqs[r].calls < DashboardCalls
         THEN reqs[r]
         ELSE [Respond(reqs[r], 200, Null) EXCEPT !.data = TRUE])
  /\ UNCHANGED <<clientVars, dbUserVars, tokens, events, nextEvent,
                 eventUsers, notifications, clubVars>>

\* prisma.user.update of PUT /api/users/:id (l.110-127)
UpdateUserStep(r) ==
  /\ reqs[r].pc = "updateUser"
  /\ \E fault \in BOOLEAN :
       IF fault \/ ~HasUser(users, reqs[r].target)
       THEN /\ Step(r, Fail(reqs[r], "Error updating user"))
            /\ UNCHANGED users
       ELSE LET old == UserRow(users, reqs[r].target)
                new == [old EXCEPT
                          !.name = IF reqs[r].hasName THEN <<"N">> ELSE @,
                          !.role = IF reqs[r].role # Null THEN reqs[r].role
                                   ELSE @]
            IN /\ users' = (users \ {old}) \cup {new}
               /\ Step(r,
                             [Respond(reqs[r], 200, Null) EXCEPT !.wrote = TRUE])
  /\ UNCHANGED <<clientVars, inserts, tokens, events, nextEvent, eventUsers,
                 notifications, clubVars>>

\* The row prisma.event.create writes (l.196-207): the fields taken from the
\* body at l.194, the caller as owner, and the default of the schema for
\* status (schema.prisma l.41).
CreatedEvent(req) ==
  [userId |-> req.caller, status |-> "PENDING", title |-> req.title]

\* prisma.event.create of POST /api/events (l.196-212)
CreateEventStep(r) ==
  /\ reqs[r].pc = "createEvent"
  /\ \E fault \in BOOLEAN :
       IF fault \/ ~HasUser(users, reqs[r].caller)
       THEN /\ Step(r, Fail(reqs[r], "Error creating event"))
            /\ UNCHANGED <<events, nextEvent>>
       ELSE /\ events' = [events EXCEPT ![nextEvent] = CreatedEvent(reqs[r])]
            /\ nextEvent' = nextEvent + 1
            /\ Step(r,
                          [Respond(reqs[r], 201, Null) EXCEPT !.event = nextEvent,
                                                        !.wrote = TRUE])
  /\ UNCHANGED <<clientVars, dbUserVars, tokens, eventUsers, notifications, clubVars>>

\* A PUT or DELETE that answers 403 to every caller but the owner's admin:
\* the comparison of the owner is inverted.
NotAuthorizedInverted(ev, req) ==
  ev.userId = req.caller /\ req.crole # "ADMIN"

\* event.userId !== req.user.id && req.user.role !== 'ADMIN' (l.230, l.266)
NotAuthorized(ev, req) ==
  ev.userId # req.caller /\ req.crole # "ADMIN"

\* prisma.event.findUnique of PUT and DELETE /api/events/:id and the checks
\* that follow it (l.221-232, l.257-268)
FindEventStep(r) ==
  /\ reqs[r].pc = "findEvent"
  /\ \E fault \in BOOLEAN :
       LET ev == events[reqs[r].event]
           verb == IF reqs[r].kind = "putEvent" THEN "updating" ELSE "deleting"
       IN Step(r,
            IF fault THEN Fail(reqs[r], ErrorMsg(verb))
            ELSE IF ev = NoEvent THEN Respond(reqs[r], 404, "Event not found")
            ELSE IF NotAuthorized(ev, reqs[r])
            THEN [Respond(reqs[r], 403, "Not authorized") EXCEPT !.owner = ev.userId]
            ELSE [reqs[r] EXCEPT !.pc = IF reqs[r].kind = "putEvent" THEN "updateEvent"
                                  ELSE "deleteEvent",
                           !.owner = ev.userId,
                           !.byRole = (ev.userId # reqs[r].caller),
                           !.rowRole = RoleOfRow(reqs[r].caller)])
  /\ UNCHANGED <<clientVars, dbUserVars, tokens, events, nextEvent,
                 eventUsers, notifications, clubVars>>

\* An update that passes the whole body as data.
UpdatedEventSpread(ev, req) ==
  [ev EXCEPT !.title = req.title,
             !.status = IF req.bstatus # Null THEN req.bstatus ELSE @]

\* The row after prisma.event.update with the data of l.236-243: of the
\* body only title, description, content, date, location and image.
UpdatedEvent(ev, req) == [ev EXCEPT !.title = req.title]

\* prisma.event.update of PUT /api/events/:id (l.234-249)
UpdateEventStep(r) ==
  /\ reqs[r].pc = "updateEvent"
  /\ \E fault \in BOOLEAN :
       IF fault \/ events[reqs[r].event] = NoEvent
       THEN /\ Step(r, Fail(reqs[r], ErrorMsg("updating")))
            /\ UNCHANGED events
       ELSE /\ events' = [events EXCEPT ![reqs[r].event] =
                            UpdatedEvent(events[reqs[r].event], reqs[r])]
            /\ Step(r,
                          [Respond(reqs[r], 200, Null) EXCEPT !.wrote = TRUE])
  /\ UNCHANGED <<clientVars, dbUserVars, tokens, nextEvent, eventUsers,
                 notifications, clubVars>>

\* A delete of an event that leaves its EventUser rows alone.
CascadeNone(tbl, e) == tbl

\* onDelete: Cascade of EventUser.event (schema.prisma l.53): the rows of
\* the deleted event go with it.
CascadeEventUsers(tbl, e) ==
  [k \in DOMAIN tbl |-> IF k[1] = e THEN 0 ELSE tbl[k]]

\* prisma.event.delete of DELETE /api/events/:id (l.270-277)
DeleteEventStep(r) ==
  /\ reqs[r].pc = "deleteEvent"
  /\ \E fault \in BOOLEAN :
       IF fault \/ events[reqs[r].event] = NoEvent
       THEN /\ Step(r, Fail(reqs[r], ErrorMsg("deleting")))
            /\ UNCHANGED <<events, eventUsers>>
       ELSE /\ events' = [events EXCEPT ![reqs[r].event] = NoEvent]
            /\ eventUsers' = CascadeEventUsers(eventUsers, reqs[r].event)
            /\ Step(r,
                    [Respond(reqs[r], 204, Null) EXCEPT
                       !.wrote = TRUE,
                       !.cascaded = \E u \in Subjects :
                                      eventUsers[<<reqs[r].event, u>>] > 0])
  /\ UNCHANGED <<clientVars, dbUserVars, tokens, nextEvent, notifications, clubVars>>

\* prisma.event.update of approve and reject (l.285-288, l.309-312)
UpdateStatusStep(r) ==
  /\ reqs[r].pc = "updateStatus"
  /\ \E fault \in BOOLEAN :
       LET verb == IF reqs[r].kind = "approve" THEN "approving" ELSE "rejecting"
       IN IF fault \/ events[reqs[r].event] = NoEvent
          THEN /\ Step(r, Fail(reqs[r], ErrorMsg(verb)))
               /\ UNCHANGED events
          ELSE /\ events' = [events EXCEPT ![reqs[r].event].status =
                               IF reqs[r].kind = "approve" THEN "APPROVED"
                               ELSE "REJECTED"]
               /\ Step(r,
                             [reqs[r] EXCEPT !.pc = "notify", !.wrote = TRUE,
                                       !.owner = events[reqs[r].event].userId])
  /\ UNCHANGED <<clientVars, dbUserVars, tokens, nextEvent, eventUsers,
                 notifications, clubVars>>

\* prisma.notification.create of approve and reject (l.291-302, l.315-326)
NotifyStep(r) ==
  /\ reqs[r].pc = "notify"
  /\ \E fault \in BOOLEAN :
       LET verb == IF reqs[r].kind = "approve" THEN "approving" ELSE "rejecting"
           key == <<reqs[r].owner,
                    IF reqs[r].kind = "approve" THEN "success" ELSE "error",
                    reqs[r].event>>
       IN IF fault \/ ~HasUser(users, reqs[r].owner)
          THEN /\ Step(r, Fail(reqs[r], ErrorMsg(verb)))
               /\ UNCHANGED notifications
          ELSE /\ notifications' = [notifications EXCEPT ![key] = @ + 1]
               /\ Step(r,
                             [Respond(reqs[r], 200, Null) EXCEPT !.notified = TRUE])
  /\ UNCHANGED <<clientVars, dbUserVars, tokens, events, nextEvent,
                 eventUsers, clubVars>>


\* A create that does not look at @@unique([eventId, userId]).
InsertEventUserNoUnique(tbl, e, u) ==
  IF events[e] = NoEvent \/ ~HasUser(users, u)
  THEN [error |-> TRUE, rows |-> tbl]
  ELSE [error |-> FALSE, rows |-> [tbl EXCEPT ![<<e, u>>] = @ + 1]]

\* prisma.eventUser.create under the constraints of schema.prisma l.51-61:
\* the foreign keys to Event and User, and @@unique([eventId, userId]).
InsertEventUser(tbl, e, u) ==
  IF tbl[<<e, u>>] > 0 \/ events[e] = NoEvent \/ ~HasUser(users, u)
  THEN [error |-> TRUE, rows |-> tbl]
  ELSE [error |-> FALSE, rows |-> [tbl EXCEPT ![<<e, u>>] = @ + 1]]

\* A lookup that never finds the row.
FindEventUserNone(tbl, e, u) == FALSE

\* prisma.eventUser.findUnique({where: {eventId_userId}}) finds a row
\* (l.350-357, l.383-390)
FindEventUser(tbl, e, u) == tbl[<<e, u>>] > 0

\* prisma.event.findUnique of POST /api/events/:id/join and its checks
\* (l.336-347)
JoinFindEventStep(r) ==
  /\ reqs[r].pc = "joinFindEvent"
  /\ \E fault \in BOOLEAN :
       LET ev == events[reqs[r].event]
       IN Step(r,
            IF fault THEN Fail(reqs[r], ErrorMsg("joining"))
            ELSE IF ev = NoEvent THEN Respond(reqs[r], 404, "Event not found")
            ELSE IF ev.status # "APPROVED"
            THEN Respond(reqs[r], 400, "Event is not approved yet")
            ELSE [reqs[r] EXCEPT !.pc = "joinFindExisting"])
  /\ UNCHANGED <<clientVars, dbUserVars, tokens, events, nextEvent,
                 eventUsers, notifications, clubVars>>

\* prisma.eventUser.findUnique of join and its check (l.350-361)
JoinFindExistingStep(r) ==
  /\ reqs[r].pc = "joinFindExisting"
  /\ \E fault \in BOOLEAN :
       Step(r,
         IF fault THEN Fail(reqs[r], ErrorMsg("joining"))
         ELSE IF FindEventUser(eventUsers, reqs[r].event, reqs[r].caller)
         THEN Respond(reqs[r], 400, "Already joined this event")
         ELSE [reqs[r] EXCEPT !.pc = "joinCreate"])
  /\ UNCHANGED <<clientVars, dbUserVars, tokens, events, nextEvent,
                 eventUsers, notifications, clubVars>>

\* prisma.eventUser.create of join (l.364-374)
JoinCreateStep(r) ==
  /\ reqs[r].pc = "joinCreate"
  /\ \E fault \in BOOLEAN :
       LET ins == InsertEventUser(eventUsers, reqs[r].event, reqs[r].caller)
       IN IF fault \/ ins.error
          THEN /\ Step(r, Fail(reqs[r], ErrorMsg("joining")))
               /\ UNCHANGED eventUsers
          ELSE /\ eventUsers' = ins.rows
               /\ Step(r,
                             [Respond(reqs[r], 201, Null) EXCEPT !.wrote = TRUE])
  /\ UNCHANGED <<clientVars, dbUserVars, tokens, events, nextEvent,
                 notifications, clubVars>>

\* prisma.eventUser.findUnique of DELETE /api/events/:id/join and its check
\* (l.383-394)
LeaveFindStep(r) ==
  /\ reqs[r].pc = "leaveFind"
  /\ \E fault \in BOOLEAN :
       Step(r,
         IF fault THEN Fail(reqs[r], ErrorMsg("leaving"))
         ELSE IF ~FindEventUser(eventUsers, reqs[r].event, reqs[r].caller)
         THEN Respond(reqs[r], 404, "Not joined this event")
         ELSE [reqs[r] EXCEPT !.pc = "leaveDelete"])
  /\ UNCHANGED <<clientVars, dbUserVars, tokens, events, nextEvent,
                 eventUsers, notifications, clubVars>>

\* A delete that names the event only: the rows of every user go.
DeleteEventUsersOfEvent(tbl, e, u) ==
  [k \in DOMAIN tbl |-> IF k[1] = e THEN 0 ELSE tbl[k]]

\* prisma.eventUser.delete({where: {eventId_userId: {eventId, userId}}})
\* (l.397-404): the one row of the pair
DeleteEventUser(tbl, e, u) == [tbl EXCEPT ![<<e, u>>] = @ - 1]

\* prisma.eventUser.delete of leave (l.397-409)
LeaveDeleteStep(r) ==
  /\ reqs[r].pc = "leaveDelete"
  /\ \E fault \in BOOLEAN :
       LET key == <<reqs[r].event, reqs[r].caller>>
       IN IF fault \/ eventUsers[key] = 0
          THEN /\ Step(r, Fail(reqs[r], ErrorMsg("leaving")))
               /\ UNCHANGED eventUsers
          ELSE /\ eventUsers' = DeleteEventUser(eventUsers, reqs[r].event,
                                                reqs[r].caller)
               /\ Step(r,
                             [Respond(reqs[r], 204, Null) EXCEPT !.wrote = TRUE])
  /\ UNCHANGED <<clientVars, dbUserVars, tokens, events, nextEvent,
                 notifications, clubVars>>

\* prisma.club.create of POST /api/clubs (l.495-503)
CreateClubStep(r) ==
  /\ reqs[r].pc = "createClub"
  /\ \E fault \in BOOLEAN :
       IF fault \/ ~HasUser(users, reqs[r].caller)
       THEN /\ Step(r, Fail(reqs[r], "Error creating club"))
            /\ UNCHANGED <<clubs, nextClub>>
       ELSE /\ clubs' = [clubs EXCEPT ![nextClub] = reqs[r].caller]
            /\ nextClub' = nextClub + 1
            /\ Step(r,
                          [reqs[r] EXCEPT !.pc = "addMember", !.club = nextClub,
                                    !.wrote = TRUE])
  /\ UNCHANGED <<clientVars, dbUserVars, tokens, events, nextEvent,
                 eventUsers, notifications, clubMembers>>

\* A create that does not look at @@unique([clubId, userId]).
InsertClubMemberNoUnique(tbl, c, u, role) ==
  IF clubs[c] = Null \/ ~HasUser(users, u)
  THEN [error |-> TRUE, rows |-> tbl]
  ELSE [error |-> FALSE, rows |-> [tbl EXCEPT ![<<c, u, role>>] = @ + 1]]

\* prisma.clubMember.create under the constraints of schema.prisma l.78-88
InsertClubMember(tbl, c, u, role) ==
  IF (\E ro \in MemberRole : tbl[<<c, u, ro>>] > 0)
     \/ clubs[c] = Null \/ ~HasUser(users, u)
  THEN [error |-> TRUE, rows |-> tbl]
  ELSE [error |-> FALSE, rows |-> [tbl EXCEPT ![<<c, u, role>>] = @ + 1]]

\* prisma.clubMember.create of POST /api/clubs (l.506-517)
AddMemberStep(r) ==
  /\ reqs[r].pc = "addMember"
  /\ \E fault \in BOOLEAN :
       LET ins == InsertClubMember(clubMembers, reqs[r].club, reqs[r].caller,
                                   "ADMIN")
       IN IF fault \/ ins.error
          THEN /\ Step(r, Fail(reqs[r], "Error creating club"))
               /\ UNCHANGED clubMembers
          ELSE /\ clubMembers' = ins.rows
               /\ Step(r,
                             [Respond(reqs[r], 201, Null) EXCEPT !.notified = TRUE])
  /\ UNCHANGED <<clientVars, dbUserVars, tokens, events, nextEvent,
                 eventUsers, notifications, clubs, nextClub>>

----------------------------------------------------------------------------
(* Specifications *)

\* PUT /api/users/:id by an administrator reaches its prisma.user.update
\* with a role in the body (part_001 l.110-115): the row's role changes.
RoleUpdated ==
  /\ \E row \in users, role \in BodyRole :
       /\ row.role # role
       /\ users' = (users \ {row}) \cup {[row EXCEPT !.role = role]}
  /\ UNCHANGED <<clientVars, inserts, apiVars>>

\* A row the directory may hold before the provider mounts: the subject's
\* real email, the local part as name, any role.
SeedRow(s, role) ==
  [id |-> s, email |-> EmailOf(s), name |-> SplitAtFirst(EmailOf(s)),
   role |-> role]

\* No token has been issued.
NoTokens == [s \in Subjects |-> Null]

\* Every subject holds a token issued from its row as it is.
TokensOfRows == [s \in Subjects |-> RoleOfRow(s)]

ApiStart ==
  /\ events = [e \in EventIds |-> NoEvent]
  /\ nextEvent = 1
  /\ eventUsers = [k \in EventIds \X Subjects |-> 0]
  /\ notifications = [k \in Subjects \X {"success", "error"} \X EventIds |-> 0]
  /\ clubs = [c \in ClubIds |-> Null]
  /\ nextClub = 1
  /\ clubMembers = [k \in ClubIds \X Subjects \X MemberRole |-> 0]
  /\ reqs = [r \in ReqIds |-> IdleReq]
  /\ resp = IdleReq

ClientStart ==
  /\ StatsStart
  /\ session = Null
  /\ user = NoUser
  /\ loading = TRUE
  /\ isAdmin = FALSE
  /\ isEmailVerified = FALSE
  /\ getSessionState = "pending"
  /\ runs = [r \in RunIds |-> IdleRun]

InitAuth ==
  /\ variant \in {1, 2}
  /\ ClientStart
  /\ ApiStart
  /\ tokens = NoTokens
  /\ \E seeded \in SUBSET Subjects :
       /\ \E roleOf \in [seeded -> Role] :
            users = {SeedRow(s, roleOf[s]) : s \in seeded}
       /\ inserts = [s \in Subjects |-> IF s \in seeded THEN 1 ELSE 0]

NextAuth ==
  \/ GetSessionResolves
  \/ AuthStateChange
  \/ \E r \in RunIds : LookupReturns(r)
  \/ \E r \in RunIds : UpsertReturns(r)
  \/ \E r \in RunIds : RefetchReturns(r)
  \/ RoleUpdated

SpecAuth == InitAuth /\ [][NextAuth]_vars

\* A directory that holds a USER row for s1 and an ADMIN row for s2.
Directory ==
  /\ users = {SeedRow("s1", "USER"), SeedRow("s2", "ADMIN")}
  /\ inserts = [s \in Subjects |-> 1]

\* Event life cycle: create, update, delete, approve, reject, by callers
\* whose tokens carry the role of their rows.
InitEvents ==
  /\ variant = 1
  /\ ClientStart
  /\ Directory
  /\ ApiStart
  /\ tokens = TokensOfRows

NextEvents ==
  \/ Receive(EventKinds \cup AdminKinds, ValidHeaders, ReqIds)
  \/ \E r \in ReqIds : IsAdminStep(r)
  \/ \E r \in ReqIds : CreateEventStep(r)
  \/ \E r \in ReqIds : FindEventStep(r)
  \/ \E r \in ReqIds : UpdateEventStep(r)
  \/ \E r \in ReqIds : DeleteEventStep(r)
  \/ \E r \in ReqIds : UpdateStatusStep(r)
  \/ \E r \in ReqIds : NotifyStep(r)

SpecEvents == InitEvents /\ [][NextEvents]_vars

\* Ownership: create, update and delete of events, two requests at a time.
InitOwner == InitEvents

NextOwner ==
  \/ Receive(EventKinds, ValidHeaders, ReqIds)
  \/ \E r \in ReqIds : CreateEventStep(r)
  \/ \E r \in ReqIds : FindEventStep(r)
  \/ \E r \in ReqIds : UpdateEventStep(r)
  \/ \E r \in ReqIds : DeleteEventStep(r)

SpecOwner == InitOwner /\ [][NextOwner]_vars

\* Membership: join, leave and club creation over events that were created
\* by s2 and are PENDING, APPROVED or already deleted.
SeedEvents == {NoEvent} \cup
  {[userId |-> "s2", status |-> st, title |-> "t1"] :
     st \in {"PENDING", "APPROVED"}}

\* The API with every event id given out and the events seeded.
ApiStartWith(seed) ==
  /\ events = seed
  /\ nextEvent = MaxEvents + 1
  /\ eventUsers = [k \in EventIds \X Subjects |-> 0]
  /\ notifications = [k \in Subjects \X {"success", "error"} \X EventIds |-> 0]
  /\ clubs = [c \in ClubIds |-> Null]
  /\ nextClub = 1
  /\ clubMembers = [k \in ClubIds \X Subjects \X MemberRole |-> 0]
  /\ reqs = [r \in ReqIds |-> IdleReq]
  /\ resp = IdleReq

InitJoin ==
  /\ variant = 1
  /\ ClientStart
  /\ Directory
  /\ tokens = TokensOfRows
  /\ \E seed \in [EventIds -> SeedEvents] : ApiStartWith(seed)

NextJoin ==
  \/ Receive(JoinKinds \cup ClubKinds, ValidHeaders, ReqIds)
  \/ \E r \in ReqIds : JoinFindEventStep(r)
  \/ \E r \in ReqIds : JoinFindExistingStep(r)
  \/ \E r \in ReqIds : JoinCreateStep(r)
  \/ \E r \in ReqIds : LeaveFindStep(r)
  \/ \E r \in ReqIds : LeaveDeleteStep(r)
  \/ \E r \in ReqIds : CreateClubStep(r)
  \/ \E r \in ReqIds : AddMemberStep(r)

SpecJoin == InitJoin /\ [][NextJoin]_vars

\* Cascade: the APPROVED events of s2 are joined and deleted and clubs are
\* created, two requests at a time.
InitCascade ==
  /\ variant = 1
  /\ ClientStart
  /\ Directory
  /\ tokens = TokensOfRows
  /\ ApiStartWith([e \in EventIds |->
                     [userId |-> "s2", status |-> "APPROVED", title |-> "t1"]])

NextCascade ==
  \/ Receive({"join", "deleteEvent", "createClub"}, ValidHeaders, ReqIds)
  \/ \E r \in ReqIds : JoinFindEventStep(r)
  \/ \E r \in ReqIds : JoinFindExistingStep(r)
  \/ \E r \in ReqIds : JoinCreateStep(r)
  \/ \E r \in ReqIds : FindEventStep(r)
  \/ \E r \in ReqIds : DeleteEventStep(r)
  \/ \E r \in ReqIds : CreateClubStep(r)
  \/ \E r \in ReqIds : AddMemberStep(r)

SpecCascade == InitCascade /\ [][NextCascade]_vars

\* Roles: tokens are issued, rows change role through PUT /api/users/:id,
\* and the holders of the tokens update and delete the PENDING events of s1,
\* one request at a time.
InitRoles ==
  /\ variant = 1
  /\ ClientStart
  /\ Directory
  /\ tokens = NoTokens
  /\ ApiStartWith([e \in EventIds |->
                     [userId |-> "s1", status |-> "PENDING", title |-> "t1"]])

NextRoles ==
  \/ IssueToken
  \/ Receive(UserKinds \cup {"putEvent", "deleteEvent"}, ValidHeaders, {1})
  \/ \E r \in ReqIds : UpdateUserStep(r)
  \/ \E r \in ReqIds : FindEventStep(r)
  \/ \E r \in ReqIds : UpdateEventStep(r)
  \/ \E r \in ReqIds : DeleteEventStep(r)

SpecRoles == InitRoles /\ [][NextRoles]_vars

\* Authentication: the event routes called with every kind of header.
InitAuthN == InitEvents

NextAuthN ==
  \/ Receive(EventKinds, Headers, ReqIds)
  \/ \E r \in ReqIds : CreateEventStep(r)
  \/ \E r \in ReqIds : FindEventStep(r)
  \/ \E r \in ReqIds : UpdateEventStep(r)
  \/ \E r \in ReqIds : DeleteEventStep(r)

SpecAuthN == InitAuthN /\ [][NextAuthN]_vars

\* The routes behind isAdmin, called by the administrator s2 and by s1, whose
\* row is USER, MODERATOR or absent and whose token says ADMIN, over PENDING
\* events of s2.
InitAdmin ==
  /\ variant = 1
  /\ ClientStart
  /\ \E rows \in {{}, {SeedRow("s1", "USER")}, {SeedRow("s1", "MODERATOR")}} :
       /\ users = rows \cup {SeedRow("s2", "ADMIN")}
       /\ inserts = [s \in Subjects |-> IF HasUser(users, s) THEN 1 ELSE 0]
  /\ tokens = [s \in Subjects |-> "ADMIN"]
  /\ ApiStartWith([e \in EventIds |->
                     [userId |-> "s2", status |-> "PENDING", title |-> "t1"]])

NextAdmin ==
  \/ Receive(AdminKinds \cup ReadKinds, ValidHeaders, ReqIds)
  \/ \E r \in ReqIds : IsAdminStep(r)
  \/ \E r \in ReqIds : ListUsersStep(r)
  \/ \E r \in ReqIds : DashboardStep(r)
  \/ \E r \in ReqIds : UpdateStatusStep(r)
  \/ \E r \in ReqIds : NotifyStep(r)

SpecAdmin == InitAdmin /\ [][NextAdmin]_vars

\* The whole life of an event: created, updated, approved, joined and left,
\* one request at a time.
InitStatus == InitEvents

NextStatus ==
  \/ Receive({"createEvent", "putEvent", "approve"} \cup JoinKinds,
             ValidHeaders, {1})
  \/ \E r \in ReqIds : CreateEventStep(r)
  \/ \E r \in ReqIds : FindEventStep(r)
  \/ \E r \in ReqIds : UpdateEventStep(r)
  \/ \E r \in ReqIds : IsAdminStep(r)
  \/ \E r \in ReqIds : UpdateStatusStep(r)
  \/ \E r \in ReqIds : NotifyStep(r)
  \/ \E r \in ReqIds : JoinFindEventStep(r)
  \/ \E r \in ReqIds : JoinFindExistingStep(r)
  \/ \E r \in ReqIds : JoinCreateStep(r)
  \/ \E r \in ReqIds : LeaveFindStep(r)
  \/ \E r \in ReqIds : LeaveDeleteStep(r)

SpecStatus == InitStatus /\ [][NextStatus]_vars

\* Joins next to the administrator's approvals and rejections, over the
\* seeded events.
InitModerate == InitJoin

NextModerate ==
  \/ Receive({"join"} \cup AdminKinds, ValidHeaders, ReqIds)
  \/ \E r \in ReqIds : JoinFindEventStep(r)
  \/ \E r \in ReqIds : JoinFindExistingStep(r)
  \/ \E r \in ReqIds : JoinCreateStep(r)
  \/ \E r \in ReqIds : IsAdminStep(r)
  \/ \E r \in ReqIds : UpdateStatusStep(r)
  \/ \E r \in ReqIds : NotifyStep(r)

SpecModerate == InitModerate /\ [][NextModerate]_vars

\* Anonymous and badly authenticated callers on join and leave, over the
\* seeded events.
InitAnon == InitJoin

NextAnon ==
  \/ Receive(JoinKinds, Headers, ReqIds)
  \/ \E r \in ReqIds : JoinFindEventStep(r)
  \/ \E r \in ReqIds : JoinFindExistingStep(r)
  \/ \E r \in ReqIds : JoinCreateStep(r)
  \/ \E r \in ReqIds : LeaveFindStep(r)
  \/ \E r \in ReqIds : LeaveDeleteStep(r)

SpecAnon == InitAnon /\ [][NextAnon]_vars

\* Failures: the admin routes behind isAdmin and the test route of the
\* second server, every store call of which may fail, one request at a time.
InitErrors == InitAdmin

NextErrors ==
  \/ Receive({"approve", "dashboard"}, Headers, {1})
  \/ ReceiveOpen(OpenKinds, {1})
  \/ IsAdminStep(1)
  \/ UpdateStatusStep(1)
  \/ NotifyStep(1)
  \/ DashboardStep(1)
  \/ TestDbStep(1)
  \/ TestDbCleanupStep(1)

SpecErrors == InitErrors /\ [][NextErrors]_vars

\* The admin dashboard asks for its statistics, up to two calls at a time,
\* while the clock runs.
InitStats == InitEvents

NextStats ==
  \/ GetDashboardStats
  \/ \E f \in FetchIds : FetchResolves(f)
  \/ Tick

SpecStats == InitStats /\ [][NextStats]_vars

\* Registration: POST /api/auth/register and signUp for the emails of the
\* subjects, up to two at a time, over a directory that is empty or holds
\* the row of s1, as USER or as ADMIN.
InitRegister ==
  /\ variant = 2
  /\ ClientStart
  /\ users \in {{}, {SeedRow("s1", "USER")}, {SeedRow("s1", "ADMIN")}}
  /\ inserts = [s \in Subjects |-> IF HasUser(users, s) THEN 1 ELSE 0]
  /\ tokens = NoTokens
  /\ ApiStart

NextRegister ==
  \/ ReceiveOpen(RegisterKinds, ReqIds)
  \/ \E r \in ReqIds : RegisterFindStep(r)
  \/ \E r \in ReqIds : RegisterCreateStep(r)
  \/ \E r \in ReqIds : SignUpSelectStep(r)
  \/ \E r \in ReqIds : AuthSignUpStep(r)
  \/ \E r \in ReqIds : SignUpUpsertStep(r)

SpecRegister == InitRegister /\ [][NextRegister]_vars

\* Lazy creation: signUp calls, one at a time, and the checkUserRole runs of
\* the second AuthProvider, over a directory that starts empty.
InitLazy ==
  /\ variant = 2
  /\ ClientStart
  /\ ApiStart
  /\ tokens = NoTokens
  /\ users = {}
  /\ inserts = [s \in Subjects |-> 0]

NextLazy ==
  \/ ReceiveOpen({"signUp"}, {1})
  \/ SignUpSelectStep(1)
  \/ AuthSignUpStep(1)
  \/ SignUpUpsertStep(1)
  \/ GetSessionResolves
  \/ AuthStateChange
  \/ \E r \in RunIds : LookupReturns(r)
  \/ \E r \in RunIds : UpsertReturns(r)
  \/ \E r \in RunIds : RefetchReturns(r)

SpecLazy == InitLazy /\ [][NextLazy]_vars

\* The client calls the event routes through its request interceptor.
InitClient == InitEvents

NextClient ==
  \/ ApiRequest(EventKinds, ReqIds)
  \/ \E r \in ReqIds : CreateEventStep(r)
  \/ \E r \in ReqIds : FindEventStep(r)
  \/ \E r \in ReqIds : UpdateEventStep(r)
  \/ \E r \in ReqIds : DeleteEventStep(r)

SpecClient == InitClient /\ [][NextClient]_vars

\* AuthProvider from its mount on: the promise of getSession resolves or
\* rejects, auth events are delivered, and the role lookups they start go on.
InitMount ==
  /\ variant \in {1, 2}
  /\ ClientStart
  /\ ApiStart
  /\ tokens = NoTokens
  /\ \E seeded \in {{}, {"s1"}} :
       /\ users = {SeedRow(s, "ADMIN") : s \in seeded}
       /\ inserts = [s \in Subjects |-> IF s \in seeded THEN 1 ELSE 0]

NextMount ==
  \/ GetSessionResolves
  \/ GetSessionRejects
  \/ AuthStateChange
  \/ \E r \in RunIds : LookupReturns(r)
  \/ \E r \in RunIds : UpsertReturns(r)
  \/ \E r \in RunIds : RefetchReturns(r)

SpecMount == InitMount /\ [][NextMount]_vars

\* The promise of getSession settles: the call reads the stored session and
\* at most refreshes it with one request, which is answered or times out.
\* Nothing obliges the identity provider to deliver an auth event or the
\* store to answer a lookup.
FairMount == SpecMount /\ WF_vars(GetSessionResolves \/ GetSessionRejects)

----------------------------------------------------------------------------
(* Claims on role resolution *)

Done(r) == runs[r].pc = "done"

C2_AsStated ==
  \A r \in RunIds :
    (Done(r) /\ runs[r].noRow /\ ~runs[r].storeErr) =>
      /\ HasUser(users, runs[r].uid)
      /\ inserts[runs[r].uid] = 1

\* C3: whatever checkUserRole calls ran, one after the other or overlapping,
\* the User table holds at most one row per id and at most one row was ever
\* inserted with that id.
C3_Idempotent ==
  \A s \in Subjects :
    /\ Cardinality(RowsOf(users, s)) <= 1
    /\ inserts[s] <= 1

\* C3 witness: two runs for the same subject both wrote the record, and one
\* insertion happened.
C3_Witness ==
  \E r, q \in RunIds :
    /\ r # q
    /\ Done(r) /\ Done(q)
    /\ runs[r].uid = runs[q].uid
    /\ runs[r].upserted /\ runs[q].upserted
    /\ inserts[runs[r].uid] = 1
    /\ Cardinality(RowsOf(users, runs[r].uid)) = 1

----------------------------------------------------------------------------
(* Claims on the event life cycle *)

AllowedTransition(old, new) ==
  \/ old = "PENDING" /\ new \in {"APPROVED", "REJECTED"}
  \/ old # "CANCELLED" /\ new = "CANCELLED"

\* C5 as stated: the status of an event changes only along
\* PENDING -> APPROVED, PENDING -> REJECTED or any -> CANCELLED.
C5_AsStated ==
  [][\A e \in EventIds :
       (events[e] # NoEvent /\ events'[e] # NoEvent
        /\ events'[e].status # events[e].status)
         => AllowedTransition(events[e].status, events'[e].status)]_vars

\* C6 as stated: every approve or reject that was answered after it changed
\* the status of the event has created its Notification for the creator.
C6_AsStated ==
  (resp.kind \in AdminKinds /\ resp.wrote) =>
    /\ resp.notified
    /\ notifications[<<resp.owner,
                       IF resp.kind = "approve" THEN "success" ELSE "error",
                       resp.event>>] >= 1

----------------------------------------------------------------------------
(* Claims on membership *)

EdgeOf(req) == <<req.event, req.caller>>

\* C7: a join that finds the caller's EventUser row is refused with the
\* conflict answer of the handler (400 'Already joined this event') and a
\* leave that finds none with 404 'Not joined this event'; each leaves the
\* EventUser table as it was, with exactly one row of the pair after the
\* refused join.  The only other answer at these lookups is the 500 of a
\* lookup that failed.
C7_JoinTwiceLeaveNone ==
  [][\A r \in ReqIds :
       /\ (/\ reqs[r].pc = "joinFindExisting"
           /\ reqs'[r] # reqs[r]
           /\ eventUsers[EdgeOf(reqs[r])] > 0) =>
            /\ reqs'[r] = IdleReq
            /\ eventUsers' = eventUsers
            /\ eventUsers'[EdgeOf(reqs[r])] = 1
            /\ resp'.kind = "join"
            /\ \/ resp'.status = 400 /\ resp'.err = "Already joined this event"
               \/ resp'.status = 500 /\ resp'.fault
       /\ (/\ reqs[r].pc = "leaveFind"
           /\ reqs'[r] # reqs[r]
           /\ eventUsers[EdgeOf(reqs[r])] = 0) =>
            /\ reqs'[r] = IdleReq
            /\ eventUsers' = eventUsers
            /\ resp'.kind = "leave"
            /\ \/ resp'.status = 404 /\ resp'.err = "Not joined this event"
               \/ resp'.status = 500 /\ resp'.fault]_vars

\* C7 witness: a second join of s1 was answered 400 'Already joined this
\* event' and the one row of the first join is there.
C7_Witness ==
  /\ resp.kind = "join"
  /\ resp.caller = "s1"
  /\ resp.status = 400
  /\ resp.err = "Already joined this event"
  /\ eventUsers[EdgeOf(resp)] = 1

MembersOf(c, u) ==
  LET RECURSIVE Sum(_)
      Sum(ros) == IF ros = {} THEN 0
                  ELSE LET ro == CHOOSE x \in ros : TRUE
                       IN clubMembers[<<c, u, ro>>] + Sum(ros \ {ro})
  IN Sum(MemberRole)

\* C8: at most one EventUser row per (eventId, userId) and at most one
\* ClubMember row per (clubId, userId), in every reachable state.
C8_UniqueEdges ==
  /\ \A k \in EventIds \X Subjects : eventUsers[k] <= 1
  /\ \A c \in ClubIds, u \in Subjects : MembersOf(c, u) <= 1

\* C8 witness: two joins of the same user to the same event have both passed
\* the 'already joined' check; one has inserted its row and the other is
\* about to insert.
C8_Witness ==
  /\ reqs[2].pc = "joinCreate"
  /\ resp.kind = "join" /\ resp.status = 201
  /\ EdgeOf(resp) = EdgeOf(reqs[2])
  /\ eventUsers[EdgeOf(resp)] = 1

----------------------------------------------------------------------------
(* Claims on authorization *)

\* C4 as stated: whenever a request is granted elevated access by role, the
\* caller's User row has role ADMIN at that moment.
C4_AsStated ==
  /\ \A r \in ReqIds : reqs[r].byRole => reqs[r].rowRole = "ADMIN"
  /\ resp.byRole => resp.rowRole = "ADMIN"

RoleOrOwnershipErrors ==
  {"Only admins can update roles", "You can only update your own profile",
   "Forbidden: Admin access required", "Not authorized"}

\* C10 as stated: a request whose credential is missing, malformed, wrongly
\* signed or expired is answered 401, a request goes on to its handler only
\* with a token that verifies, and 403 answers only a failed role or
\* ownership check.
C10_AsStated ==
  /\ \A r \in ReqIds :
       reqs[r].pc # "idle" => Verifies(TokenOf(reqs[r].header))
  /\ (resp.pc = "done" /\ ~Verifies(TokenOf(resp.header))) => resp.status = 401
  /\ resp.status = 403 => resp.err \in RoleOrOwnershipErrors

----------------------------------------------------------------------------
(* Claims on the guarded routes *)

\* The rows of every table.
tables == <<users, events, eventUsers, notifications, clubs, clubMembers>>

\* C11: a request without a token in its Authorization header never gets
\* past authenticateToken (no handler, so no store call, runs for it), it is
\* answered 401 'Unauthorized', and the step that answers it leaves every
\* table as it was.
C11_AnonymousRefused ==
  /\ [](\A r \in ReqIds :
          reqs[r].pc # "idle" => TokenOf(reqs[r].header) # NoToken)
  /\ [][(resp' # resp /\ resp'.pc = "done"
         /\ TokenOf(resp'.header) = NoToken) =>
          /\ resp'.status = 401
          /\ resp'.err = "Unauthorized"
          /\ ~resp'.wrote
          /\ tables' = tables]_vars

\* C11 witness: a join of an APPROVED event sent without an Authorization
\* header was answered 401 and the event has no EventUser row.
C11_Witness ==
  /\ resp.kind = "join"
  /\ resp.header = << >>
  /\ resp.status = 401
  /\ events[resp.event].status = "APPROVED"
  /\ \A u \in Subjects : eventUsers[<<resp.event, u>>] = 0

\* C12: a request to a route behind isAdmin (dashboard, GET /api/users,
\* approve, reject) whose caller's User row is absent or not ADMIN never
\* reaches the handler: isAdmin answers it 403 'Forbidden: Admin access
\* required' (500 if its own lookup failed) with no statistics or rows in the
\* body, and that step leaves every table as it was.
C12_AdminOnly ==
  /\ [](\A r \in ReqIds :
          reqs[r].pc \in {"updateStatus", "notify", "listUsers", "dashboard"}
            => reqs[r].rowRole = "ADMIN")
  /\ [][\A r \in ReqIds :
          (/\ reqs[r].pc = "isAdmin"
           /\ reqs'[r] # reqs[r]
           /\ RoleOfRow(reqs[r].caller) # "ADMIN") =>
            /\ reqs'[r] = IdleReq
            /\ resp'.kind = reqs[r].kind
            /\ \/ /\ resp'.status = 403
                  /\ resp'.err = "Forbidden: Admin access required"
               \/ resp'.status = 500 /\ resp'.fault
            /\ ~resp'.data
            /\ ~resp'.wrote
            /\ tables' = tables]_vars

\* C12 witness: s1, who has no User row and holds a token that says ADMIN,
\* asked for the dashboard and was answered 403 without statistics.
C12_Witness ==
  /\ resp.kind = "dashboard"
  /\ resp.caller = "s1"
  /\ resp.crole = "ADMIN"
  /\ ~HasUser(users, "s1")
  /\ resp.status = 403
  /\ ~resp.data

\* C13 as stated: an EventUser row is inserted only for an event that
\* exists and whose status is APPROVED when the row is inserted.
C13_AsStated ==
  [][\A k \in EventIds \X Subjects :
       eventUsers'[k] > eventUsers[k] =>
         /\ events[k[1]] # NoEvent
         /\ events[k[1]].status = "APPROVED"]_vars

\* C14 as stated: the role of a User row changes only in a PUT
\* /api/users/:id whose caller is ADMIN, that is, whose own User row had role
\* ADMIN when the request was authorized.
C14_AsStated ==
  [][(\E s \in Subjects :
        /\ HasUser(users, s)
        /\ RoleOfRow(s) # UserRow(users', s).role) =>
       /\ resp'.kind = "putUser"
       /\ resp'.wrote
       /\ resp'.rowRole = "ADMIN"]_vars

\* C15: an event is created with status PENDING, and the status of an
\* existing event changes only in the update of an approve or reject whose
\* caller passed isAdmin (the caller's User row was ADMIN); create, PUT, join
\* and leave never change it, whatever status the body carries.
C15_StatusByAdminOnly ==
  [][\A e \in EventIds :
       /\ (events[e] = NoEvent /\ events'[e] # NoEvent) =>
            events'[e].status = "PENDING"
       /\ (/\ events[e] # NoEvent
           /\ events'[e] # NoEvent
           /\ events'[e].status # events[e].status) =>
            \E r \in ReqIds :
              /\ reqs[r].pc = "updateStatus"
              /\ reqs[r].kind \in AdminKinds
              /\ reqs[r].event = e
              /\ reqs[r].rowRole = "ADMIN"
              /\ reqs'[r] # reqs[r]]_vars

\* C15 witness: a PUT whose body carries status APPROVED was answered 200
\* and has written the event, which is still PENDING.
C15_Witness ==
  /\ resp.kind = "putEvent"
  /\ resp.bstatus = "APPROVED"
  /\ resp.status = 200
  /\ resp.wrote
  /\ events[resp.event].status = "PENDING"
  /\ events[resp.event].title = "t2"

----------------------------------------------------------------------------
(* Claims on clubs and cascades *)

\* C16 as stated: once the POST /api/clubs that created a Club row has
\* finished, the ClubMember row (club, creator) with role ADMIN exists.
C16_AsStated ==
  \A c \in ClubIds :
    (/\ clubs[c] # Null
     /\ \A r \in ReqIds : ~(reqs[r].pc = "addMember" /\ reqs[r].club = c)) =>
      clubMembers[<<c, clubs[c], "ADMIN">>] = 1

\* C17: no EventUser row references a missing event or user, no ClubMember
\* row references a missing club or user, and after a DELETE /api/events/:id
\* answered 204 no EventUser row references the deleted event.
C17_Cascade ==
  /\ \A k \in DOMAIN eventUsers :
       eventUsers[k] > 0 => events[k[1]] # NoEvent /\ HasUser(users, k[2])
  /\ \A k \in DOMAIN clubMembers :
       clubMembers[k] > 0 => clubs[k[1]] # Null /\ HasUser(users, k[2])
  /\ (resp.kind = "deleteEvent" /\ resp.status = 204) =>
       /\ events[resp.event] = NoEvent
       /\ \A u \in Subjects : eventUsers[<<resp.event, u>>] = 0

\* A joined event was deleted while a club has its member.
C17_Witness ==
  /\ resp.kind = "deleteEvent"
  /\ resp.status = 204
  /\ resp.cascaded
  /\ \E k \in DOMAIN clubMembers : clubMembers[k] > 0

----------------------------------------------------------------------------
(* Claims on failures *)

\* C18 as stated: every failing request is answered with an error message,
\* a store error is answered 500, and no request issues the same store call
\* twice.
C18_AsStated ==
  /\ resp.status >= 400 => resp.err # Null
  /\ resp.fault => resp.status = 500
  /\ ~resp.repeated
  /\ \A r \in ReqIds : ~reqs[r].repeated

----------------------------------------------------------------------------
(* Claims on the statistics cache *)

\* C19: a getDashboardStats call made less than CACHE_TTL after the recorded
\* fetch time returns the cached entry without fetching; a call made on an
\* empty cache or at or after CACHE_TTL fetches and replaces the entry; the
\* recorded fetch time is the start of the fetch that produced the entry,
\* and no call returns an entry older than CACHE_TTL measured from there.
C19_BoundedTTL ==
  /\ dashboardStatsCache # NoEntry => dashboardStatsCache.start = lastFetchTime
  /\ returned.pc = "returned" =>
       /\ (returned.seen # NoEntry /\ returned.at - returned.last < CACHE_TTL)
            => ~returned.fetched /\ returned.entry = returned.seen
       /\ (returned.seen = NoEntry \/ returned.at - returned.last >= CACHE_TTL)
            => /\ returned.fetched
               /\ returned.entry.start = returned.at
               /\ dashboardStatsCache = returned.entry
       /\ returned.time - returned.entry.start < CACHE_TTL
  /\ \A f \in FetchIds :
       fetches[f].pc = "fetching" =>
         fetches[f].seen = NoEntry \/ fetches[f].now - fetches[f].last >= CACHE_TTL

\* Two calls overlap on an expired cache: one has fetched again and
\* returned, the other is still waiting.
C19_Witness ==
  /\ returned.pc = "returned"
  /\ returned.fetched
  /\ returned.seen # NoEntry
  /\ returned.at - returned.last >= CACHE_TTL
  /\ \E f \in FetchIds : fetches[f].pc = "fetching" /\ fetches[f].seen # NoEntry

----------------------------------------------------------------------------
(* Claims on registration *)

\* C20 as stated: no two User rows share an email; a signUp or a POST
\* /api/auth/register for an email that is registered when it begins
\* returns an error, creates no row and (signUp) does not call the identity
\* provider; and so does the one of two concurrent registrations that finds
\* the email registered when it comes to write.
C20_AsStated ==
  /\ \A a, b \in users : a.email = b.email => a = b
  /\ (resp.kind \in RegisterKinds /\ resp.known) =>
       resp.err # Null /\ ~resp.wrote /\ ~resp.provider
  /\ (resp.kind \in RegisterKinds /\ resp.taken) =>
       resp.err # Null /\ ~resp.wrote

----------------------------------------------------------------------------
(* Claims on the directory record *)

\* C21 as stated: a finished checkUserRole run that found no User row for
\* its subject (PGRST116), with every store call of the run answered, has
\* left a row with the subject's real email and, as name, the session's
\* metadata name or else the local part of the email.
C21_AsStated ==
  \A r \in RunIds :
    (Done(r) /\ runs[r].noRow /\ ~runs[r].storeErr) =>
      /\ HasUser(users, runs[r].uid)
      /\ UserRow(users, runs[r].uid).email = EmailOf(runs[r].uid)
      /\ UserRow(users, runs[r].uid).name =
           DefaultName(Identity(runs[r].uid).metaName, EmailOf(runs[r].uid))

\* C22 as stated: no step of checkUserRole, createUserRecordIfNotExists or
\* signUp changes the role of a User row that has role ADMIN or MODERATOR.
C22_AsStated ==
  [][(runs' # runs \/ reqs' # reqs) =>
       \A row \in users :
         row.role \in {"ADMIN", "MODERATOR"} =>
           \E new \in users' : new.id = row.id /\ new.role = row.role]_vars

----------------------------------------------------------------------------
(* Claims on the provider's state *)

\* C23 as stated: after a sign-out event (session null) isAdmin is false
\* and stays false until the next sign-in event, also when a lookup started
\* for the earlier session completes afterwards.
C23_AsStated == session = Null => isAdmin = FALSE

\* C24 as stated: whenever loading is false and there is a session, isAdmin
\* equals (the User row of the session's subject has role ADMIN), and
\* AdminDashboard does not redirect a subject whose row has role ADMIN.
C24_AsStated ==
  (loading = FALSE /\ session # Null) =>
    /\ isAdmin = (RoleOfRow(session) = "ADMIN")
    /\ RoleOfRow(session) = "ADMIN" => ~RedirectsHome

----------------------------------------------------------------------------
(* Claims on the middleware and the frame of the routes *)

\* C25: isAdmin calls the next handler only when its lookup succeeded and
\* returned a row with role ADMIN; a missing row or another role gives 403,
\* a store error gives 500 'Server error' whatever the row says, and the
\* step of isAdmin changes no table.
C25_FailClosed ==
  [][\A r \in ReqIds :
       (reqs[r].pc = "isAdmin" /\ reqs'[r] # reqs[r]) =>
         /\ tables' = tables
         /\ \/ /\ reqs'[r].pc = AfterIsAdmin(reqs[r].kind)
               /\ RoleOfRow(reqs[r].caller) = "ADMIN"
               /\ reqs'[r].rowRole = "ADMIN"
               /\ ~reqs'[r].fault
            \/ /\ reqs'[r] = IdleReq
               /\ resp'.status = 403
               /\ resp'.err = "Forbidden: Admin access required"
               /\ RoleOfRow(reqs[r].caller) # "ADMIN"
            \/ /\ reqs'[r] = IdleReq
               /\ resp'.status = 500
               /\ resp'.err = "Server error"
               /\ resp'.fault]_vars

\* C25 witness: the administrator s2 asked to approve an event, the lookup
\* of isAdmin failed, and the answer was 500 with the event still PENDING.
C25_Witness ==
  /\ resp.kind = "approve"
  /\ resp.caller = "s2"
  /\ RoleOfRow("s2") = "ADMIN"
  /\ resp.status = 500
  /\ resp.err = "Server error"
  /\ resp.calls = 1
  /\ events[resp.event].status = "PENDING"

\* C26 as stated: a PUT /api/users/:id that writes for a caller who is not
\* ADMIN (the caller's User row when the request was authorized) is for the
\* caller's own id and changes only the name of the caller's own row.
C26_AsStated ==
  [][(/\ resp' # resp
      /\ resp'.kind = "putUser"
      /\ resp'.wrote
      /\ resp'.rowRole # "ADMIN") =>
       /\ resp'.target = resp'.caller
       /\ \A row \in users :
            \E new \in users' :
              /\ new.id = row.id
              /\ new.role = row.role
              /\ new.email = row.email
              /\ row.id # resp'.caller => new = row]_vars

----------------------------------------------------------------------------
(* Claims on signUp and the client *)

\* C28 as stated: a signUp for which the identity provider created the
\* account reports success, also when its upsert failed; and once a
\* checkUserRole run for that subject has finished with every store call
\* answered, exactly one User row with that id exists and its role is USER.
C28_AsStated ==
  (resp.kind = "signUp" /\ resp.pc = "done" /\ resp.uid # Null) =>
    /\ resp.err = Null
    /\ (\E r \in RunIds :
          Done(r) /\ runs[r].uid = resp.uid /\ ~runs[r].storeErr) =>
         /\ Cardinality(RowsOf(users, resp.uid)) = 1
         /\ RoleOfRow(resp.uid) = "USER"

\* C29: a request that went through the interceptor is never failed by it,
\* and carries 'Bearer <token>' exactly when getSession returned a session
\* with an access token; after an error, no session or an exception it is
\* sent without an Authorization header.
C29_AsStated ==
  \A q \in {reqs[r] : r \in ReqIds} \cup {resp} :
    q.getSession.result # Null =>
      /\ ~q.rejected
      /\ q.header = IF q.getSession.result = "session"
                       /\ q.getSession.token # NoToken
                    THEN <<"Bearer", q.getSession.token>>
                    ELSE << >>
\* C30: loading never goes back to true, every auth event delivered leaves
\* it false, and once the promise of getSession has settled, by resolving or
\* by rejecting, loading is false from some point on, whether or not the role
\* lookups return.
C30_AsStated ==
  /\ [][loading = FALSE => loading' = FALSE]_vars
  /\ [][AuthStateChange => loading' = FALSE]_vars
  /\ [](getSessionState # "pending" => <>[](loading = FALSE))
====
